---- MODULE Spec2Model ----
(***************************************************************************)
(* Model of the byte-oriented Huffman codec of huffman_encoding_rs:        *)
(* HuffmanNode::build_tree, serialize, decode (src/src/huffman.rs) and the *)
(* encode / decode wrappers of src/src/main.rs.                            *)
(*                                                                         *)
(* Code strings ("0"/"1" characters of a Rust String) are sequences of the *)
(* one-character strings "0" and "1"; the decoder's Vec<bool> is a         *)
(* sequence of BOOLEAN; bytes are integers 0..255.                         *)
(***************************************************************************)
EXTENDS Integers, Sequences, FiniteSets, TLC

\* ---------------------------------------------------------------- bounds
MaxSym == 3        \* the input alphabet is byte 0 and MaxSym letters from 'a'
MaxLen == 4        \* longest input given to encode / build_tree
MaxPayload == 1    \* longest symbol sequence given to serialize directly
MaxPacked == 5     \* longest byte sequence given to decode directly

\* ------------------------------------------------------ program constants
ByteRange == 256   \* u8::MAX as usize + 1
FieldWidth == 8    \* the width of {:08b} and of chunks(8), get_byte's take(8)

\* ------------------------------------------------------------ input sets
Range(f) == {f[i] : i \in DOMAIN f}
BSeq(S, n) == UNION {[1..k -> S] : k \in 0..n}

\* byte 0 and the ASCII letters 'a', 'b', ... (all model bytes are ASCII, so
\* every model input is a valid Rust String)
Alphabet == {0} \cup {96 + i : i \in 1..MaxSym}
\* build_tree reads items only through the counts of the byte values: called
\* directly, it is given one sequence for each multiset of bytes
Ascending(S, n) == {q \in BSeq(S, n) : \A i, j \in DOMAIN q : i < j => q[i] <= q[j]}

\* bytes of a hand-made stream given to decode: terminator, depths, a letter
DecBytes == {0, 1, 2, 97}

\* ------------------------------------------------------------ HuffmanNode
Leaf(v, c) == [kind |-> "Leaf", val |-> v, count |-> c]
Node(l, r) == [kind |-> "Node", left |-> l, right |-> r]

\* Option<String>
None == <<FALSE, <<>>>>
Some(str) == <<TRUE, str>>

RECURSIVE eq(_, _)
eq(self, other) ==
    IF self.kind = "Leaf" /\ other.kind = "Leaf" THEN self.val = other.val
    ELSE IF self.kind = "Node" /\ other.kind = "Node"
         THEN eq(self.left, other.left) /\ eq(self.right, other.right)
         ELSE FALSE

RECURSIVE get_usage(_)
get_usage(self) ==
    IF self.kind = "Leaf" THEN self.count
    ELSE get_usage(self.left) + get_usage(self.right)

\* ------------------------------------------------------------- build_tree
\* usages[b] after the counting loop
Usages(items) == [b \in 0..(ByteRange - 1) |->
                    Cardinality({i \in DOMAIN items : items[i] = b})]

\* for (i, use_count) in usages.into_iter().enumerate(): one Leaf per byte
\* value with a non-zero count, in ascending byte order (the walk steps from
\* one non-zero count to the next)
RECURSIVE SeedFrom(_, _)
SeedFrom(usages, i) ==
    LET used == {b \in i..(ByteRange - 1) : usages[b] > 0} IN
    IF used = {} THEN <<>>
    ELSE LET b == CHOOSE x \in used : \A y \in used : x <= y
         IN <<Leaf(b, usages[b])>> \o SeedFrom(usages, b + 1)

\* Insert with the order of equal weights reversed
RECURSIVE InsertUnstable(_, _)
InsertUnstable(sorted, x) ==
    IF sorted = <<>> THEN <<x>>
    ELSE IF get_usage(sorted[Len(sorted)]) > get_usage(x) THEN Append(sorted, x)
         ELSE Append(InsertUnstable(SubSeq(sorted, 1, Len(sorted) - 1), x),
                     sorted[Len(sorted)])

\* Insert with the comparison the other way round (ascending weight)
RECURSIVE InsertAscending(_, _)
InsertAscending(sorted, x) ==
    IF sorted = <<>> THEN <<x>>
    ELSE IF get_usage(sorted[Len(sorted)]) <= get_usage(x) THEN Append(sorted, x)
         ELSE Append(InsertAscending(SubSeq(sorted, 1, Len(sorted) - 1), x),
                     sorted[Len(sorted)])

\* places x in a collection already in descending weight order, behind every
\* entry that does not compare greater: the position a stable sort gives it
RECURSIVE Insert(_, _)
Insert(sorted, x) ==
    IF sorted = <<>> THEN <<x>>
    ELSE IF get_usage(sorted[Len(sorted)]) >= get_usage(x) THEN Append(sorted, x)
         ELSE Append(Insert(SubSeq(sorted, 1, Len(sorted) - 1), x),
                     sorted[Len(sorted)])

\* trees.sort_by(|a, b| b.get_usage().cmp(&a.get_usage())): stable, descending
RECURSIVE SortFrom(_, _, _)
SortFrom(v, i, acc) ==
    IF i > Len(v) THEN acc ELSE SortFrom(v, i + 1, Insert(acc, v[i]))

sort_by(v) == SortFrom(v, 1, <<>>)

\* ------------------------------------------------------ encode / serialize
\* encode with "0" prepended on the way back from either child
RECURSIVE encode_same_bit(_, _)
encode_same_bit(self, n) ==
    IF self.kind = "Leaf"
    THEN IF self.val = n THEN Some(<<>>) ELSE None
    ELSE LET l == encode_same_bit(self.left, n) IN
         IF l[1] THEN Some(<<"0">> \o l[2])
         ELSE LET r == encode_same_bit(self.right, n) IN
              IF r[1] THEN Some(<<"0">> \o r[2]) ELSE None

\* fn encode(&self, n: u8) -> Option<String>: the first matching path
RECURSIVE encode(_, _)
encode(self, n) ==
    IF self.kind = "Leaf"
    THEN IF self.val = n THEN Some(<<>>) ELSE None
    ELSE LET l == encode(self.left, n) IN
         IF l[1] THEN Some(<<"0">> \o l[2])
         ELSE LET r == encode(self.right, n) IN
              IF r[1] THEN Some(<<"1">> \o r[2]) ELSE None

\* the traversal with the right subtree visited first
RECURSIVE in_order_traversal_right_first(_, _)
in_order_traversal_right_first(self, pre) ==
    IF self.kind = "Leaf" THEN << <<self.val, pre>> >>
    ELSE in_order_traversal_right_first(self.right, Append(pre, "1"))
         \o in_order_traversal_right_first(self.left, Append(pre, "0"))

\* Vec<(u8, String)>: every leaf with its path, left subtree first
RECURSIVE in_order_traversal(_, _)
in_order_traversal(self, pre) ==
    IF self.kind = "Leaf" THEN << <<self.val, pre>> >>
    ELSE in_order_traversal(self.left, Append(pre, "0"))
         \o in_order_traversal(self.right, Append(pre, "1"))

\* the binary digits of n, without leading zeros ("0" for 0)
RECURSIVE Binary(_)
Binary(n) ==
    IF n < 2 THEN <<IF n = 1 THEN "1" ELSE "0">>
    ELSE Append(Binary(n \div 2), IF n % 2 = 1 THEN "1" ELSE "0")

RECURSIVE Zeros(_)
Zeros(k) == IF k <= 0 THEN <<>> ELSE <<"0">> \o Zeros(k - 1)

\* format!("{:08b}", n): zero-padded to at least FieldWidth digits
Format08b(n) == Zeros(FieldWidth - Len(Binary(n))) \o Binary(n)

RECURSIVE ConcatCodes(_, _)
ConcatCodes(codes, i) ==
    IF i > Len(codes) THEN <<>>
    ELSE Format08b(Len(codes[i][2])) \o Format08b(codes[i][1])
         \o ConcatCodes(codes, i + 1)

serialize_tree(self) ==
    ConcatCodes(in_order_traversal(self, <<>>), 1) \o Zeros(FieldWidth)

\* the fold of the codes of s; every byte of s has a code here
RECURSIVE Encoded(_, _, _)
Encoded(self, s, i) ==
    IF i > Len(s) THEN <<>>
    ELSE encode(self, s[i])[2] \o Encoded(self, s, i + 1)

\* b - b'0'
Digit(c) == IF c = "1" THEN 1 ELSE 0

\* chunk.iter().fold(0_u8, |acc, &b| (acc << 1) | (b - b'0'))
RECURSIVE FoldChunk(_, _, _)
FoldChunk(chunk, i, acc) ==
    IF i > Len(chunk) THEN acc
    ELSE FoldChunk(chunk, i + 1, ((acc * 2) % ByteRange) + Digit(chunk[i]))

RECURSIVE Pow2(_)
Pow2(k) == IF k = 0 THEN 1 ELSE 2 * Pow2(k - 1)

\* the byte of one chunk without the left alignment of a short chunk
PackChunkUnshifted(chunk) == FoldChunk(chunk, 1, 0)

\* n << extra, extra = 8 - chunk.len()
PackChunk(chunk) ==
    (FoldChunk(chunk, 1, 0) * Pow2(FieldWidth - Len(chunk))) % ByteRange

\* total.as_bytes().chunks(8).map(..).collect()
RECURSIVE PackFrom(_, _)
PackFrom(total, start) ==
    IF start > Len(total) THEN <<>>
    ELSE LET stop == IF start + FieldWidth - 1 > Len(total) THEN Len(total)
                     ELSE start + FieldWidth - 1
         IN <<PackChunk(SubSeq(total, start, stop))>> \o PackFrom(total, stop + 1)

\* pub fn serialize(&self, s: &[u8]) -> Vec<u8>, for s whose bytes have codes
serialize(self, s) == PackFrom(serialize_tree(self) \o Encoded(self, s, 1), 1)

\* encode(*n).unwrap() panics on a byte that is not in the tree
SerializePanics(self, s) == \E i \in DOMAIN s : ~encode(self, s[i])[1]

\* ------------------------------------------------------------------ decode
\* (0..8).map(move |i| (n >> (7 - i)) & 1 == 1)
ByteBits(n) == [i \in 1..FieldWidth |-> (n \div Pow2(FieldWidth - i)) % 2 = 1]

RECURSIVE ExpandFrom(_, _)
ExpandFrom(bytes, i) ==
    IF i > Len(bytes) THEN <<>> ELSE ByteBits(bytes[i]) \o ExpandFrom(bytes, i + 1)

\* flat_map(..).chain(std::iter::once(false))
Expand(bytes) == Append(ExpandFrom(bytes, 1), FALSE)

\* &input[k..]
Drop(input, k) == SubSeq(input, k + 1, Len(input))

\* fn get_byte(input: &[bool]) -> u8: over input.iter().take(8)
RECURSIVE GetByteFrom(_, _)
GetByteFrom(input, i) ==
    IF i > FieldWidth \/ i > Len(input) THEN 0
    ELSE (IF input[i] THEN Pow2(FieldWidth - i) ELSE 0) + GetByteFrom(input, i + 1)

get_byte(input) == GetByteFrom(input, 1)

CodePoint(len, data) == [len |-> len, data |-> data]

\* the while loop of decode_tree and the step past the terminator; panic is
\* "slice" where &input[8..] starts behind the end of the slice
RECURSIVE ParseCodes(_, _)
ParseCodes(input, codes) ==
    IF get_byte(input) # 0
    THEN LET len == get_byte(input) IN
         IF Len(input) < FieldWidth
         THEN [panic |-> "slice", codes |-> codes, rest |-> input]
         ELSE LET in1 == Drop(input, FieldWidth)
                  char == get_byte(in1)
              IN IF Len(in1) < FieldWidth
                 THEN [panic |-> "slice", codes |-> codes, rest |-> in1]
                 ELSE ParseCodes(Drop(in1, FieldWidth),
                                 Append(codes, CodePoint(len, char)))
    ELSE IF Len(input) < FieldWidth
         THEN [panic |-> "slice", codes |-> codes, rest |-> input]
         ELSE [panic |-> "none", codes |-> codes, rest |-> Drop(input, FieldWidth)]

NoTree == [kind |-> "None"]

\* the fn build_tree nested in decode_tree; index counts the CodePoints
\* consumed. The calls for the left children do not move index, so from
\* (index, depth) they go down to the depth that equals items[index].len and
\* make the leaf there: that chain is taken at once, and Climb then makes the
\* right sibling and the Node of every level on the way back up to depth.
\* depth + 1 on a u8 of 255 panics where overflow is checked and wraps to 0
\* where it is not (wraps tells which build this is); the chain meets it
\* exactly when items[index].len is below depth.
RECURSIVE decode_tree_build_tree(_, _, _, _), Climb(_, _, _, _, _, _)
decode_tree_build_tree(items, index, depth, wraps) ==
    IF index >= Len(items)
    THEN [panic |-> "index", tree |-> NoTree, index |-> index]
    ELSE LET codepoint == items[index + 1] IN
         IF codepoint.len = depth
         THEN [panic |-> "none", tree |-> Leaf(codepoint.data, 0),
               index |-> index + 1]
         ELSE IF codepoint.len < depth /\ ~wraps
         THEN [panic |-> "overflow", tree |-> NoTree, index |-> index]
         ELSE Climb(items, Leaf(codepoint.data, 0), index + 1, codepoint.len,
                    depth, wraps)

\* left is the finished left child of a call at depth level - 1:
\* let right = build_tree(items, index, depth + 1); Node { left, right }
Climb(items, left, index, level, depth, wraps) ==
    LET right == decode_tree_build_tree(items, index, level, wraps) IN
    IF right.panic # "none" THEN right
    ELSE LET node == Node(left, right.tree)
             parent == (level + ByteRange - 1) % ByteRange
         IN IF parent = depth
            THEN [panic |-> "none", tree |-> node, index |-> right.index]
            ELSE Climb(items, node, right.index, parent, depth, wraps)

\* fn decode_tree(mut input: &[bool]) -> (Self, &[bool])
decode_tree(input, wraps) ==
    LET parsed == ParseCodes(input, <<>>) IN
    IF parsed.panic # "none"
    THEN [panic |-> parsed.panic, tree |-> NoTree, rest |-> parsed.rest]
    ELSE LET built == decode_tree_build_tree(parsed.codes, 0, 0, wraps)
         IN [panic |-> built.panic, tree |-> built.tree, rest |-> parsed.rest]

\* fn decode_item: input[0] is read at the top of every turn of the loop,
\* also on the leaf; panic is "index" where input is empty there
RECURSIVE decode_item_from(_, _)
decode_item_from(node, input) ==
    IF Len(input) = 0 THEN [panic |-> "index", val |-> 0, rest |-> input]
    ELSE IF node.kind = "Leaf"
    THEN [panic |-> "none", val |-> node.val, rest |-> input]
    ELSE decode_item_from(IF input[1] THEN node.right ELSE node.left,
                          Drop(input, 1))

decode_item(self, input) == decode_item_from(self, input)

\* String::from_utf8(output).unwrap() and as_bytes(): the identity on ASCII
\* bytes; the streams of this model carry ASCII symbols only
from_utf8(output) ==
    IF \A i \in DOMAIN output : output[i] < 128
    THEN [panic |-> "none", bytes |-> output]
    ELSE [panic |-> "utf8", bytes |-> <<>>]

\* ------------------------------------------------------------------ state
VARIABLES
    mode,      \* "encode": main.rs encode then decode of its output;
               \* "lib": build_tree, serialize, decode called directly;
               \* "decode": main.rs decode of an arbitrary byte sequence
    input,     \* the text given to encode (main.rs)
    items,     \* the argument of build_tree
    trees,     \* the working collection of build_tree
    created,   \* history: every entry ever pushed to trees, in push order
    tree,      \* the tree build_tree returned
    s,         \* the argument of serialize
    packed,    \* the bytes serialize returned / the bytes given to decode
    bits,      \* the remaining input slice of the decode loop
    dtree,     \* the tree decode_tree returned
    out,       \* items of the decode loop
    result,    \* the bytes main.rs decode returned
    pc,        \* the position in the program
    panic      \* "none", or the kind of the panic that ended the run

vars == <<mode, input, items, trees, created, tree, s, packed, bits, dtree, out,
          result, pc, panic>>

Init ==
    /\ mode \in {"encode", "lib", "decode"}
    /\ input \in (IF mode = "encode" THEN BSeq(Alphabet, MaxLen) ELSE {<<>>})
    /\ items \in (IF mode = "lib" THEN Ascending(Alphabet, MaxLen) ELSE {<<>>})
    /\ packed \in (IF mode = "decode" THEN BSeq(DecBytes, MaxPacked) ELSE {<<>>})
    /\ pc = (IF mode = "encode" THEN "encode"
             ELSE IF mode = "lib" THEN "build_tree" ELSE "decode")
    /\ trees = <<>> /\ created = <<>> /\ tree = NoTree /\ s = <<>>
    /\ bits = <<>> /\ dtree = NoTree /\ out = <<>> /\ result = <<>>
    /\ panic = "none"

Panic(kind) == pc' = "panic" /\ panic' = kind

\* main.rs encode: input.push('\0'), then build_tree(input)
EncodeStart ==
    /\ pc = "encode"
    /\ items' = Append(input, 0)
    /\ pc' = "build_tree"
    /\ UNCHANGED <<mode, input, trees, created, tree, s, packed, bits, dtree,
                   out, result, panic>>

\* build_tree up to the while loop: the empty check, the counts, the leaves
BuildTreeStart ==
    /\ pc = "build_tree"
    /\ IF items = <<>>
       THEN /\ Panic("empty")
            /\ UNCHANGED <<trees, created>>
       ELSE /\ trees' = SeedFrom(Usages(items), 0)
            /\ created' = trees'
            /\ pc' = "loop"
            /\ UNCHANGED panic
    /\ UNCHANGED <<mode, input, items, tree, s, packed, bits, dtree, out, result>>

\* while trees.len() > 1 { trees.sort_by(..)
Sort ==
    /\ pc = "loop"
    /\ Len(trees) > 1
    /\ trees' = sort_by(trees)
    /\ pc' = "merge"
    /\ UNCHANGED <<mode, input, items, created, tree, s, packed, bits, dtree,
                   out, result, panic>>

\* the new node with only its first child in both places
MergedNodeDropB(a, b) == Node(a, a)

\* HuffmanNode::Node { left: Box::new(a), right: Box::new(b) }
MergedNode(a, b) == Node(a, b)

\* let a = pop; let b = pop; trees.push(new) }
Merge ==
    /\ pc = "merge"
    /\ LET n == Len(trees)
           a == trees[n]
           b == trees[n - 1]
           new == MergedNode(a, b)
       IN /\ trees' = Append(SubSeq(trees, 1, n - 2), new)
          /\ created' = Append(created, new)
    /\ pc' = "loop"
    /\ UNCHANGED <<mode, input, items, tree, s, packed, bits, dtree, out, result,
                   panic>>

\* a check that lets a lone leaf through
RejectsNothing(t) == FALSE

\* if let HuffmanNode::Leaf { .. } = tree
Rejects(t) == t.kind = "Leaf"

\* the end of build_tree: trees.pop().unwrap() and the leaf check
Finish ==
    /\ pc = "loop"
    /\ Len(trees) <= 1
    /\ LET t == trees[Len(trees)] IN
       IF Rejects(t)
       THEN /\ Panic("palpatine")
            /\ UNCHANGED <<trees, tree>>
       ELSE /\ tree' = t
            /\ trees' = <<>>
            /\ pc' = "serialize"
            /\ UNCHANGED panic
    /\ UNCHANGED <<mode, input, items, created, s, packed, bits, dtree, out,
                   result>>

\* tree.serialize(input) of main.rs, or serialize(s) called directly
Serialize ==
    /\ pc = "serialize"
    /\ \E arg \in (IF mode = "encode" THEN {items} ELSE BSeq(Alphabet, MaxPayload)) :
         /\ s' = arg
         /\ IF SerializePanics(tree, arg)
            THEN /\ Panic("unwrap")
                 /\ UNCHANGED packed
            ELSE /\ packed' = serialize(tree, arg)
                 /\ pc' = "decode"
                 /\ UNCHANGED panic
    /\ UNCHANGED <<mode, input, items, trees, created, tree, bits, dtree, out,
                   result>>

\* HuffmanNode::decode up to its while loop: the expansion and decode_tree
DecodeStart ==
    /\ pc = "decode"
    /\ \E wraps \in BOOLEAN :
         LET r == decode_tree(Expand(packed), wraps) IN
         IF r.panic # "none"
         THEN /\ Panic(r.panic)
              /\ bits' = r.rest
              /\ UNCHANGED dtree
         ELSE /\ dtree' = r.tree
              /\ bits' = r.rest
              /\ pc' = "decode_loop"
              /\ UNCHANGED panic
    /\ UNCHANGED <<mode, input, items, trees, created, tree, s, packed, out,
                   result>>

\* the turn of the loop with the push ahead of the test for the zero symbol
DecodeItemPushFirst ==
    /\ pc = "decode_loop"
    /\ Len(bits) > 1
    /\ LET r == decode_item(dtree, bits) IN
       IF r.panic # "none"
       THEN /\ Panic(r.panic)
            /\ bits' = r.rest
            /\ UNCHANGED out
       ELSE /\ bits' = r.rest
            /\ UNCHANGED panic
            /\ out' = Append(out, r.val)
            /\ pc' = IF r.val = 0 THEN "break" ELSE "decode_loop"
    /\ UNCHANGED <<mode, input, items, trees, created, tree, s, packed, dtree,
                   result>>

\* one turn of the while loop of decode
DecodeItem ==
    /\ pc = "decode_loop"
    /\ Len(bits) > 1
    /\ LET r == decode_item(dtree, bits) IN
       IF r.panic # "none"
       THEN /\ Panic(r.panic)
            /\ bits' = r.rest
            /\ UNCHANGED out
       ELSE /\ bits' = r.rest
            /\ UNCHANGED panic
            /\ IF r.val = 0
               THEN pc' = "break" /\ UNCHANGED out
               ELSE pc' = "decode_loop" /\ out' = Append(out, r.val)
    /\ UNCHANGED <<mode, input, items, trees, created, tree, s, packed, dtree,
                   result>>

\* the while condition input.len() > 1 fails
DecodeExit ==
    /\ pc = "decode_loop"
    /\ Len(bits) <= 1
    /\ pc' = "exit"
    /\ UNCHANGED <<mode, input, items, trees, created, tree, s, packed, bits,
                   dtree, out, result, panic>>

\* (tree, items) returned to main.rs decode, which returns the String
DecodeReturn ==
    /\ pc \in {"break", "exit"}
    /\ LET r == from_utf8(out) IN
       IF r.panic # "none"
       THEN Panic(r.panic) /\ UNCHANGED result
       ELSE result' = r.bytes /\ pc' = "done" /\ UNCHANGED panic
    /\ UNCHANGED <<mode, input, items, trees, created, tree, s, packed, bits,
                   dtree, out>>

Next ==
    \/ EncodeStart
    \/ BuildTreeStart
    \/ Sort
    \/ Merge
    \/ Finish
    \/ Serialize
    \/ DecodeStart
    \/ DecodeItem
    \/ DecodeExit
    \/ DecodeReturn

Spec == Init /\ [][Next]_vars

\* ------------------------------------------------------------- properties
Leaves(t) == in_order_traversal(t, <<>>)
CodeOf(t, x) == encode(t, x)[2]
Count(seq, x) == Cardinality({i \in DOMAIN seq : seq[i] = x})
Distinct(seq) == Cardinality(Range(seq))
IsPrefix(p, q) == Len(p) <= Len(q) /\ SubSeq(q, 1, Len(p)) = p
Built == tree # NoTree
Position(seq, x) == CHOOSE i \in DOMAIN seq : seq[i] = x

RECURSIVE SumUsage(_, _)
SumUsage(ts, i) == IF i > Len(ts) THEN 0 ELSE get_usage(ts[i]) + SumUsage(ts, i + 1)

RECURSIVE SumCodeLen(_, _, _)
SumCodeLen(t, seq, i) ==
    IF i > Len(seq) THEN 0 ELSE Len(CodeOf(t, seq[i])) + SumCodeLen(t, seq, i + 1)

\* the longest prefix of seq without a zero byte
ZeroFreePrefix(seq) ==
    LET zeros == {i \in DOMAIN seq : seq[i] = 0} IN
    IF zeros = {} THEN seq
    ELSE SubSeq(seq, 1, (CHOOSE i \in zeros : \A j \in zeros : i <= j) - 1)

\* C1: decode(encode(S)) = S for every non-empty S with at least two distinct
\* byte values: the run of main.rs encode and decode does not panic and the
\* bytes decode returns are the bytes encode was given.
C1_RoundTrip ==
    (mode = "encode" /\ input # <<>> /\ Distinct(input) >= 2)
        => /\ pc # "panic"
           /\ pc = "done" => result = input

\* C2: for every tree T returned by build_tree, decode_tree on the expanded
\* output of serialize does not panic and returns a tree equal to T under
\* the PartialEq of HuffmanNode (shape and leaf symbols, counts ignored).
C2_TreeRoundTrip ==
    (mode # "decode" /\ Built)
        => /\ dtree # NoTree => eq(dtree, tree) /\ eq(tree, dtree)
           /\ pc \in {"decode_loop", "break", "exit", "done"} => dtree # NoTree
           /\ (pc = "panic" /\ panic # "unwrap") => dtree # NoTree

C2_Witness ==
    /\ mode # "decode" /\ Built /\ dtree # NoTree
    /\ Len(Leaves(tree)) >= 3
    /\ tree.left.kind # tree.right.kind
    /\ eq(dtree, tree)

\* C3: in the tree build_tree returns, every symbol of the input has exactly
\* one leaf, encode returns the path of that leaf, and for two distinct
\* symbols of the input neither code is a prefix of the other.
C3_PrefixFree ==
    Built =>
        /\ \A x \in Range(items) :
              /\ encode(tree, x)[1]
              /\ \E i \in DOMAIN Leaves(tree) :
                    /\ Leaves(tree)[i] = <<x, CodeOf(tree, x)>>
                    /\ \A j \in DOMAIN Leaves(tree) :
                          Leaves(tree)[j][1] = x => j = i
        /\ \A x, y \in Range(items) :
              x # y => ~IsPrefix(CodeOf(tree, x), CodeOf(tree, y))

C3_Witness ==
    /\ Built /\ pc = "serialize"
    /\ \E x, y \in Range(items) :
          x # y /\ Len(CodeOf(tree, x)) = 1 /\ Len(CodeOf(tree, y)) >= 2

\* the bit at place k (from 1, most significant bit of the first byte first)
\* of a byte sequence
BitAt(bytes, k) ==
    (bytes[((k - 1) \div 8) + 1] \div Pow2(7 - ((k - 1) % 8))) % 2

\* C4: serialize(s) returns ceil(B / 8) bytes, B = 16 * L + 8 + the sum of the
\* code lengths of the bytes of s; bit k of the output, most significant bit
\* first, is bit k of the descriptor followed by the codes, and the bits of
\* the last byte behind bit B are zero.
C4_ByteAligned ==
    (mode # "decode" /\ Built /\ pc \notin {"serialize"}
       /\ ~(pc = "panic" /\ panic = "unwrap"))
        => LET B == 16 * Len(Leaves(tree)) + 8 + SumCodeLen(tree, s, 1)
               total == serialize_tree(tree) \o Encoded(tree, s, 1)
           IN /\ Len(total) = B
              /\ Len(packed) = (B + 7) \div 8
              /\ \A k \in 1..(8 * Len(packed)) :
                    BitAt(packed, k) = IF k <= B THEN Digit(total[k]) ELSE 0

C4_Witness ==
    /\ mode = "lib" /\ Built /\ pc = "decode"
    /\ Len(s) = 1
    /\ CodeOf(tree, s[1]) = <<"1", "1">>
    /\ Len(packed) = 2 * Len(Leaves(tree)) + 2
    /\ packed[Len(packed)] = 192

\* C5: the weights of the entries of the working collection add up to the
\* number of input bytes at every step of the loop, the returned root has
\* that weight, and the node a merge step appends has the weight of the two
\* entries it removed.
C5_WeightConservation ==
    /\ [](/\ pc \in {"loop", "merge"} => SumUsage(trees, 1) = Len(items)
          /\ Built => get_usage(tree) = Len(items))
    /\ [][pc = "merge" =>
            /\ Len(trees') = Len(trees) - 1
            /\ get_usage(trees'[Len(trees')])
                 = get_usage(trees[Len(trees)]) + get_usage(trees[Len(trees) - 1])
            /\ get_usage(trees'[Len(trees')])
                 = get_usage(trees'[Len(trees')].left)
                   + get_usage(trees'[Len(trees')].right)]_vars

C5_Witness ==
    /\ Built /\ Len(created) >= 5
    /\ get_usage(tree) = Len(items)
    /\ get_usage(tree.left) # get_usage(tree.right)

\* C6: build_tree panics exactly when items is empty or has one distinct
\* byte value, and otherwise returns a tree whose root is a Node; so encode
\* of the empty text panics and encode of a run of one non-zero byte does not.
C6_BuildTreeFails ==
    (mode # "decode" /\ pc \notin {"encode", "build_tree"}) =>
        /\ (pc = "panic" /\ panic = "empty") => items = <<>>
        /\ (pc = "panic" /\ panic = "palpatine") => Distinct(items) = 1
        /\ Built => Distinct(items) >= 2 /\ tree.kind = "Node"
        /\ Distinct(items) <= 1 =>
              /\ ~Built
              /\ pc \in {"loop", "panic"}
              /\ pc = "loop" => Len(trees) = 1 /\ trees[1].kind = "Leaf"
              /\ pc = "panic" =>
                    panic = (IF items = <<>> THEN "empty" ELSE "palpatine")
        /\ (mode = "encode" /\ input = <<>>) => ~Built
        /\ (mode = "encode" /\ input # <<>> /\ 0 \notin Range(input))
              => ~(pc = "panic" /\ panic \in {"empty", "palpatine"})

C6_Witness ==
    /\ mode = "lib" /\ pc = "panic" /\ panic = "palpatine"
    /\ Len(items) >= 2 /\ Distinct(items) = 1

\* C7: for a text S with a non-zero byte, decode(encode(S)) is the longest
\* prefix of S without a zero byte; the decode loop ends by the break on a
\* zero symbol, never by its while condition and never by a panic, and no
\* zero byte is pushed to the output.
C7_StopsAtFirstZero ==
    (mode = "encode" /\ \E i \in DOMAIN input : input[i] # 0)
        => /\ pc # "panic"
           /\ pc # "exit"
           /\ \A i \in DOMAIN out : out[i] # 0
           /\ IsPrefix(out, ZeroFreePrefix(input))
           /\ pc \in {"break", "done"} => out = ZeroFreePrefix(input)
           /\ pc = "done" => result = ZeroFreePrefix(input)

C7_Witness ==
    /\ mode = "encode" /\ pc = "done"
    /\ Len(input) = 3 /\ input[1] # 0 /\ input[2] = 0 /\ input[3] # 0
    /\ result = <<input[1]>>

\* C8: whatever bytes decode is given, no step of decode_tree, of the tree
\* rebuild or of decode_item goes behind the end of the bit slice or of the
\* CodePoint list (in Rust such a step is a panic of the slice or the index).
C8_NoReadPastEnd ==
    ~(pc = "panic" /\ panic \in {"slice", "index"})

\* C9: after the sort of a merge iteration the collection is in descending
\* weight order with equal weights in push order (leaves by ascending byte,
\* a leaf before a Node, Nodes in creation order); the merge takes the last
\* entry as left child and the one before it as right child and appends the
\* new Node at the end.
C9_TieBreaking ==
    /\ [](pc = "merge" =>
            \A i, j \in DOMAIN trees :
                i < j =>
                  /\ get_usage(trees[i]) >= get_usage(trees[j])
                  /\ get_usage(trees[i]) = get_usage(trees[j]) =>
                        /\ Position(created, trees[i]) < Position(created, trees[j])
                        /\ (trees[i].kind = "Leaf" /\ trees[j].kind = "Leaf")
                              => trees[i].val < trees[j].val
                        /\ trees[i].kind = "Node" => trees[j].kind = "Node")
    /\ [][pc = "merge" =>
            trees' = Append(SubSeq(trees, 1, Len(trees) - 2),
                            Node(trees[Len(trees)], trees[Len(trees) - 1]))]_vars

C9_Witness ==
    /\ pc = "merge" /\ Len(trees) = 3
    /\ trees[1].kind = "Leaf" /\ trees[2].kind = "Node" /\ trees[3].kind = "Leaf"
    /\ get_usage(trees[1]) = get_usage(trees[2])
    /\ trees[2].left.kind = "Leaf" /\ trees[2].right.kind = "Leaf"
    /\ get_usage(trees[2].left) = get_usage(trees[2].right)
    /\ trees[2].left.val > trees[2].right.val

\* C10: in the tree build_tree returns, a byte that occurs strictly more
\* often in the input than another has a code that is not longer.
C10_HuffmanOrdering ==
    Built =>
        \A x, y \in Range(items) :
            Count(items, x) > Count(items, y)
                => Len(CodeOf(tree, x)) <= Len(CodeOf(tree, y))

C10_Witness ==
    /\ Built /\ Distinct(items) >= 3
    /\ \E x, y, z \in Range(items) :
          /\ Count(items, x) > Count(items, y)
          /\ Count(items, y) = Count(items, z) /\ y # z
          /\ Len(CodeOf(tree, x)) < Len(CodeOf(tree, y))

====
